---- MODULE Spec2Model ----
(***************************************************************************)
(* A model of the maubot spotprice plugin (src/spotprice.py): the daily    *)
(* announce timer, the bounded retry chain of _poll, fetch_prices with its *)
(* status checks and JSON parsing, the formatter, delivery to the rooms,   *)
(* the on-demand command and the host's configuration updates.             *)
(*                                                                         *)
(* Time is the CET wall clock in whole seconds counted from 00:00:00 of    *)
(* BaseDay (2024-02-28).  A date string "YYYY-MM-DD" is the tuple          *)
(* <<Y, M, D>>.  Prices are scaled integers: a raw price is in 1/1000 of   *)
(* the currency unit per MWh, the VAT multiplier in 1/100, a converted     *)
(* price in 1/100000 c/kWh, so that the conversion is exact.               *)
(***************************************************************************)
EXTENDS Integers, Sequences, FiniteSets, TLC

\* ------------------------------------------------------------ constants
MaxAttempts == 24
RetryDelay == 300
AnnounceHour == 12
AnnounceMinute == 45
MidPoint == 12
PriceDivisor == 10
NoContent == 204
ErrorStatus == 400
SecondsPerDay == 86400
SecondsPerHour == 3600
SecondsPerMinute == 60
HoursPerDay == 24
\* scales of the fixed-point numbers
PriceScale == 1000
VatScale == 100
OutScale == 100000
DisplayScale == 100
\* 2024-02-28, a Wednesday, as days since 1970-01-01 and as weekday()
BaseDay == 19781
BaseWeekday == 2
PriceKey == "FI"

\* --------------------------------------------------------------- bounds
MaxCommands == 1
MaxElapse == 1
ElapseStep == 43200
FullLen == 24
ProbeWidth == 30

\* ------------------------------------------------------------- calendar
AnnounceOffset == AnnounceHour * SecondsPerHour + AnnounceMinute * SecondsPerMinute

DayOf(t) == t \div SecondsPerDay

\* datetime.strftime("%Y-%m-%d") of day number n (days since BaseDay), by the
\* proleptic Gregorian calendar
DateStr(n) ==
    LET z == n + BaseDay + 719468
        era == z \div 146097
        doe == z - era * 146097
        yoe == (doe - doe \div 1460 + doe \div 36524 - doe \div 146096) \div 365
        doy == doe - (365 * yoe + yoe \div 4 - yoe \div 100)
        mp == (5 * doy + 2) \div 153
        d == doy - (153 * mp + 2) \div 5 + 1
        m == IF mp < 10 THEN mp + 3 ELSE mp - 9
        y == yoe + era * 400 + (IF m <= 2 THEN 1 ELSE 0)
    IN  <<y, m, d>>

\* next_announce_time with the comparison announce_time <= now
NextAnnounceTime_AtOrAfter(n) ==
    LET announce_time == DayOf(n) * SecondsPerDay + AnnounceOffset
    IN  IF announce_time <= n THEN announce_time + SecondsPerDay ELSE announce_time

\* next_announce_time evaluated at instant n
NextAnnounceTime(n) ==
    LET announce_time == DayOf(n) * SecondsPerDay + AnnounceOffset
    IN  IF announce_time < n THEN announce_time + SecondsPerDay ELSE announce_time

\* ---------------------------------------------------------- configuration
DayNamesFi == <<"ma", "ti", "ke", "to", "pe", "la", "su">>
DayNamesEn == <<"Mon", "Tue", "Wed", "Thu", "Fri", "Sat", "Sun">>

\* the configurations the host may hold; vat is in 1/100 (24 is 0.24)
Configs ==
    << [delivery_area |-> "FI", currency |-> "EUR", timezone |-> "Europe/Helsinki",
        post_to_rooms |-> <<"!a", "!b">>, day_names |-> DayNamesFi,
        command |-> "spot", vat |-> 24],
       [delivery_area |-> "SE3", currency |-> "SEK", timezone |-> "Mars/Phobos",
        post_to_rooms |-> <<"!b">>, day_names |-> DayNamesEn,
        command |-> "price", vat |-> 0],
       [delivery_area |-> "FI", currency |-> "EUR", timezone |-> "UTC",
        post_to_rooms |-> <<"!a">>, day_names |-> DayNamesEn,
        command |-> "spot", vat |-> 10] >>

\* the configurations the host switches among while a retry chain runs
ChainConfigs == {1, 2}

\* pytz.timezone(name): the zones pytz knows, with their UTC offset in hours
\* (winter time); any other name raises UnknownTimeZoneError
KnownZones == {"Europe/Helsinki", "CET", "UTC"}
ZoneOffset(z) == IF z = "Europe/Helsinki" THEN 2 ELSE IF z = "CET" THEN 1 ELSE 0
Timezone(name) == IF name \in KnownZones THEN name ELSE "UTC"

\* ------------------------------------------------------- HTTP responses
\* the statuses the price API answers with
Statuses == {200, NoContent, 404, 500}

Areas == {"FI", "SE3"}

\* JSON values: a price is a float (v in 1/1000), an integer (v whole units) or
\* a string; deliveryStart is an ISO 8601 string (v the UTC hour counted from
\* BaseDay 00:00), a string that is no timestamp, or absent
JFloat(v) == [t |-> "float", v |-> v]
JInt(v) == [t |-> "int", v |-> v]
JStr == [t |-> "str", v |-> 0]
Iso(h) == [t |-> "iso", v |-> h]
NoStart == [t |-> "absent", v |-> 0]
BadStart == [t |-> "bad", v |-> 0]

\* one entry of multiAreaEntries: epa says whether entryPerArea is present,
\* prices is the entryPerArea object
Item(start, epa, prices) == [deliveryStart |-> start, epa |-> epa, prices |-> prices]

\* the first delivery hour of the bodies: 2024-02-28T22:00Z, local midnight of
\* the 29th in Helsinki
FirstHour == 22

BothAreas(i) == [a \in Areas |-> IF a = "FI" THEN JFloat(10000 + 70 * i) ELSE JFloat(30000 + 110 * i)]
OnlyArea(a, p) == [x \in {a} |-> p]

GoodItem(i) == Item(Iso(FirstHour + i - 1), TRUE, BothAreas(i))

\* n good entries, the k-th replaced by bad (k = 0: none replaced)
Entries(n, k, bad) == [i \in 1..n |-> IF i = k THEN bad ELSE GoodItem(i)]

Body(json, has, entries) == [json |-> json, has |-> has, entries |-> entries]

\* the bodies the price API answers with
Bodies ==
    << Body(FALSE, FALSE, <<>>),
       Body(TRUE, FALSE, <<>>),
       Body(TRUE, TRUE, <<>>),
       Body(TRUE, TRUE, Entries(FullLen, 0, GoodItem(1))),
       Body(TRUE, TRUE, [i \in 1..FullLen |->
            Item(Iso(FirstHour + i - 1), TRUE, OnlyArea("SE3", JFloat(30000 + 110 * i)))]),
       Body(TRUE, TRUE, [i \in 1..FullLen |->
            Item(Iso(FirstHour + i - 1), TRUE, OnlyArea("FI", JFloat((i - 3) * 1230)))]),
       Body(TRUE, TRUE, Entries(FullLen, 3, Item(Iso(FirstHour + 2), TRUE, OnlyArea("FI", JInt(50))))),
       Body(TRUE, TRUE, Entries(FullLen, 3, Item(Iso(FirstHour + 2), TRUE, OnlyArea("FI", JStr)))),
       Body(TRUE, TRUE, Entries(FullLen, 2, Item(Iso(FirstHour + 1), FALSE, <<>>))),
       Body(TRUE, TRUE, Entries(FullLen, 2, Item(NoStart, TRUE, BothAreas(2)))),
       Body(TRUE, TRUE, Entries(FullLen, 2, Item(BadStart, TRUE, BothAreas(2)))),
       Body(TRUE, TRUE, Entries(MidPoint, 0, GoodItem(1))) >>

BodyIds == 1..Len(Bodies)

\* ------------------------------------------------------------ fetch_prices
\* fetch_prices without the 204 test
StatusCheck_No204(status) ==
    IF status >= ErrorStatus THEN "ClientResponseError" ELSE "ok"

\* resp.raise_for_status() and the 204 test: the exception raised, or "ok"
StatusCheck(status) ==
    IF status >= ErrorStatus THEN "ClientResponseError"
    ELSE IF status = NoContent THEN "NoData"
    ELSE "ok"

\* the conversion without the VAT
Convert_NoVat(price, vat_multiplier) ==
    (price * VatScale * (OutScale \div (PriceScale * VatScale))) \div PriceDivisor

\* price * self.vat_multiplier / 10
Convert(price, vat_multiplier) ==
    (price * vat_multiplier * (OutScale \div (PriceScale * VatScale))) \div PriceDivisor

\* the body of the for loop for one entry: the exception it raises, or "ok"
ItemCheck(item) ==
    IF ~item.epa THEN "KeyError: entryPerArea"
    ELSE IF PriceKey \notin DOMAIN item.prices THEN "KeyError: area"
    ELSE IF item.prices[PriceKey].t # "float" THEN "ValueError: not a float"
    ELSE IF item.deliveryStart.t = "absent" THEN "KeyError: deliveryStart"
    ELSE IF item.deliveryStart.t # "iso" THEN "ValueError: fromisoformat"
    ELSE "ok"

ItemPoint(item, vat_multiplier) ==
    <<item.deliveryStart.v, Convert(item.prices[PriceKey].v, vat_multiplier)>>

\* the try block: [exc, cause, data]; the first entry that raises ends the loop
ParseBody(body, vat_multiplier) ==
    LET bad == {i \in DOMAIN body.entries : ItemCheck(body.entries[i]) # "ok"}
        first == CHOOSE i \in bad : \A j \in bad : i <= j
        Failed(cause) == [exc |-> "ParseError", cause |-> cause, data |-> <<>>]
    IN  IF ~body.json THEN Failed("JSONDecodeError")
        ELSE IF ~body.has THEN Failed("KeyError: multiAreaEntries")
        ELSE IF bad # {} THEN Failed(ItemCheck(body.entries[first]))
        ELSE [exc |-> "ok", cause |-> "none",
              data |-> [i \in DOMAIN body.entries |->
                            ItemPoint(body.entries[i], vat_multiplier)]]

\* ----------------------------------------------------------- _format_prices
Weekday(h) == (BaseWeekday + h \div HoursPerDay) % 7

\* f"{price:.2f}": to 1/100, ties to even
Round2(x) ==
    LET unit == OutScale \div DisplayScale
        q == x \div unit
        r == x % unit
    IN  IF 2 * r > unit \/ (2 * r = unit /\ q % 2 = 1) THEN q + 1 ELSE q

\* ts.astimezone(self.timezone).strftime("%H:%M"): the local hour
LocalHour(h, tz) == (h + ZoneOffset(tz)) % HoursPerDay

NoText == [head |-> <<"", <<0, 0, 0>>>>, lines |-> <<>>]

\* [exc, text]: IndexError when the series has no element of index 12; the
\* text is the header (weekday name, date) and one line (local hour, price
\* to 1/100) per point
FormatPrices(data, names, tz) ==
    IF Len(data) <= MidPoint
    THEN [exc |-> "IndexError", text |-> NoText]
    ELSE [exc |-> "ok",
          text |-> [head |-> <<names[Weekday(data[MidPoint + 1][1]) + 1],
                               DateStr(data[MidPoint + 1][1] \div HoursPerDay)>>,
                    lines |-> [i \in DOMAIN data |->
                                  <<LocalHour(data[i][1], tz), Round2(data[i][2])>>]]]

\* ------------------------------------------------------------------ state
VARIABLES
    now,            \* the CET wall clock, seconds since BaseDay 00:00:00
    elapsed,        \* how often the clock has jumped by ElapseStep
    started,        \* start() has run
    config,         \* the host's configuration, an index of Configs
    delivery_area, currency, timezone, rooms, day_names, vat_multiplier,
    command_name,   \* the derived fields of SpotPriceBot
    timers,         \* the one-shot timers of self.sched that have not fired
    polls,          \* the _poll tasks that are suspended at an await
    cmds,           \* the poll_manually tasks that are suspended at an await
    ncmds,          \* the number of command invocations so far
    log,            \* the last record written to self.log
    last,           \* the last fetch_prices call that returned or raised
    fetches,        \* per date, the fetch_prices calls of the scheduled path
    sent,           \* the messages delivered by send_markdown, in order
    replies,        \* the replies made by evt.reply, in order
    ended,          \* the _poll chains that have ended, and how
    announced       \* the announce instants _schedule_poll has armed

fields == <<delivery_area, currency, timezone, rooms, day_names, vat_multiplier,
            command_name>>
vars == <<now, elapsed, started, config, fields, timers, polls, cmds, ncmds,
          log, last, fetches, sent, replies, ended, announced>>

\* the instants at which the plugin is started
StartInstants == {AnnounceOffset - 1, AnnounceOffset, AnnounceOffset + 1}

\* the instants at which next_announce_time is probed: every second within
\* ProbeWidth of 12:45:00 on two days, and the ends of the day
ProbeInstants ==
    {d * SecondsPerDay + AnnounceOffset + k : d \in 0..1, k \in -ProbeWidth..ProbeWidth}
    \cup {0, SecondsPerDay - 1, SecondsPerDay}

\* the date arguments the command is given; <<>> is no argument
DateArgs == {<<>>, <<2024, 3, 2>>}

NoLog == [level |-> "none", msg |-> ""]
NoFetch == [n |-> 0, caller |-> "none", id |-> 0, date |-> <<>>, attempts |-> 0,
            area |-> "", currency |-> "", reqcfg |-> 0, status |-> 0, body |-> 0,
            vm |-> 0, cfg |-> 0, exc |-> "none", cause |-> "none", data |-> <<>>]

InitAt(instants, configs) ==
    /\ now \in instants
    /\ elapsed = 0
    /\ started = FALSE
    /\ config \in configs
    /\ delivery_area = ""
    /\ currency = ""
    /\ timezone = ""
    /\ rooms = <<>>
    /\ day_names = <<>>
    /\ vat_multiplier = 0
    /\ command_name = ""
    /\ timers = {}
    /\ polls = {}
    /\ cmds = {}
    /\ ncmds = 0
    /\ log = NoLog
    /\ last = NoFetch
    /\ fetches = <<>>
    /\ sent = <<>>
    /\ replies = <<>>
    /\ ended = {}
    /\ announced = {}

Init == InitAt(StartInstants, ChainConfigs)

\* ------------------------------------------------- start, configuration
\* on_external_config_update without the except clause: an unknown timezone
\* ends the handler where pytz.timezone raises
OnExternalConfigUpdate_Fatal(c) ==
    /\ delivery_area' = Configs[c].delivery_area
    /\ currency' = Configs[c].currency
    /\ IF Configs[c].timezone \in KnownZones
       THEN /\ timezone' = Configs[c].timezone
            /\ rooms' = Configs[c].post_to_rooms
            /\ day_names' = Configs[c].day_names
            /\ vat_multiplier' = VatScale + Configs[c].vat
            /\ command_name' = Configs[c].command
       ELSE UNCHANGED <<timezone, rooms, day_names, vat_multiplier, command_name>>
    /\ log' = log

\* on_external_config_update with the host holding Configs[c]
OnExternalConfigUpdate(c) ==
    /\ delivery_area' = Configs[c].delivery_area
    /\ currency' = Configs[c].currency
    /\ timezone' = Timezone(Configs[c].timezone)
    /\ log' = IF Configs[c].timezone \in KnownZones THEN log
              ELSE [level |-> "warning", msg |-> "Unknown timezone, using UTC"]
    /\ rooms' = Configs[c].post_to_rooms
    /\ day_names' = Configs[c].day_names
    /\ vat_multiplier' = VatScale + Configs[c].vat
    /\ command_name' = Configs[c].command

\* the timer _schedule_poll arms at instant n: run_later(announce_in, _poll(next_date))
SchedulePoll(n) ==
    LET announce_time == NextAnnounceTime(n)
        announce_in == announce_time - n
        next_date == DateStr(DayOf(announce_time + SecondsPerDay))
    IN  [at |-> n + announce_in, date |-> next_date, attempts |-> 0, armed |-> n]

\* start() giving up control after _schedule_poll: the timer is armed and the
\* derived fields are not set yet
Start_TimerOnly ==
    /\ ~started
    /\ started' = TRUE
    /\ timers' = timers \cup {SchedulePoll(now)}
    /\ announced' = announced \cup {NextAnnounceTime(now)}
    /\ UNCHANGED <<now, elapsed, config, fields, polls, cmds, ncmds, log, last,
                   fetches, sent, replies, ended>>

\* start(): no await between _schedule_poll and on_external_config_update
Start ==
    /\ ~started
    /\ started' = TRUE
    /\ timers' = timers \cup {SchedulePoll(now)}
    /\ announced' = announced \cup {NextAnnounceTime(now)}
    /\ OnExternalConfigUpdate(config)
    /\ UNCHANGED <<now, elapsed, config, polls, cmds, ncmds, last, fetches, sent,
                   replies, ended>>

\* a configuration update that calls _schedule_poll again, as start() does
ConfigUpdate_Reschedule(c) ==
    /\ started
    /\ c # config
    /\ config' = c
    /\ OnExternalConfigUpdate(c)
    /\ timers' = timers \cup {SchedulePoll(now)}
    /\ UNCHANGED <<now, elapsed, started, polls, cmds, ncmds, last,
                   fetches, sent, replies, ended, announced>>

\* the host stores another configuration and calls on_external_config_update
ConfigUpdate(c) ==
    /\ started
    /\ c # config
    /\ config' = c
    /\ OnExternalConfigUpdate(c)
    /\ UNCHANGED <<now, elapsed, started, timers, polls, cmds, ncmds, last,
                   fetches, sent, replies, ended, announced>>

\* ------------------------------------------------------------------ clock
\* with a timer pending the clock runs to the earliest deadline
AdvanceToTimer ==
    /\ \E t \in timers :
          /\ \A u \in timers : t.at <= u.at
          /\ now < t.at
          /\ now' = t.at
    /\ UNCHANGED <<elapsed, started, config, fields, timers, polls, cmds, ncmds,
                   log, last, fetches, sent, replies, ended, announced>>

\* with no timer pending (a request in flight, or nothing to do) any time passes
Elapse ==
    /\ started
    /\ timers = {}
    /\ elapsed < MaxElapse
    /\ elapsed' = elapsed + 1
    /\ now' = now + ElapseStep
    /\ UNCHANGED <<started, config, fields, timers, polls, cmds, ncmds, log,
                   last, fetches, sent, replies, ended, announced>>

\* ------------------------------------------------------------------ _poll
\* _poll with the test attempts > 24
GiveUp_OffByOne(attempts) == attempts > MaxAttempts

\* _poll with the test attempts >= 23
GiveUp_Early(attempts) == attempts >= MaxAttempts - 1

\* the test at the top of _poll
GiveUp(attempts) == attempts >= MaxAttempts

\* the except branch passing attempts on unchanged
RetryTimer_SameCount(date, attempts, n) ==
    [at |-> n + RetryDelay, date |-> date, attempts |-> attempts, armed |-> n]

\* the except branch taking the date of the day after the retry
RetryTimer_DateOfRetry(date, attempts, n) ==
    [at |-> n + RetryDelay, date |-> DateStr(DayOf(n + SecondsPerDay)),
     attempts |-> attempts + 1, armed |-> n]

\* the timer the except branch arms at instant n
RetryTimer(date, attempts, n) ==
    [at |-> n + RetryDelay, date |-> date, attempts |-> attempts + 1, armed |-> n]

\* fetch_prices building the URL with the area it reads from the response
Request_FixedArea(date) ==
    [date |-> date, area |-> PriceKey, currency |-> currency, cfg |-> config]

\* what fetch_prices captures when it builds the URL; cfg records the
\* configuration the host holds at that moment
Request(date) ==
    [date |-> date, area |-> delivery_area, currency |-> currency, cfg |-> config]

Count(f, d) == IF d \in DOMAIN f THEN f[d] ELSE 0

\* the record of a fetch_prices call that has returned or raised; reqcfg and
\* cfg record the configuration the host held at the request and holds now
Fetched(caller, id, date, attempts, req, status, body, vm, exc, cause, data) ==
    [n |-> last.n + 1, caller |-> caller, id |-> id, date |-> date,
     attempts |-> attempts, area |-> req.area, currency |-> req.currency,
     reqcfg |-> req.cfg, status |-> status, body |-> body, vm |-> vm,
     cfg |-> config, exc |-> exc, cause |-> cause, data |-> data]

\* a timer fires with the attempts used up: _poll logs and returns
PollGiveUp(t) ==
    /\ t \in timers
    /\ t.at <= now
    /\ GiveUp(t.attempts)
    /\ timers' = timers \ {t}
    /\ log' = [level |-> "error",
               msg |-> "Failed to fetch spot prices 24 times in a row, giving up"]
    /\ ended' = ended \cup {[date |-> t.date, how |-> "exhausted", rooms |-> <<>>]}
    /\ UNCHANGED <<now, elapsed, started, config, fields, polls, cmds, ncmds,
                   last, fetches, sent, replies, announced>>

\* a timer fires: _poll calls fetch_prices, which sends the request
PollFetch(t) ==
    /\ t \in timers
    /\ t.at <= now
    /\ ~GiveUp(t.attempts)
    /\ timers' = timers \ {t}
    /\ polls' = polls \cup
          {[date |-> t.date, attempts |-> t.attempts, pc |-> "http",
            req |-> Request(t.date), status |-> 0, rooms |-> <<>>, idx |-> 0,
            text |-> NoText]}
    /\ fetches' = (t.date :> (Count(fetches, t.date) + 1)) @@ fetches
    /\ UNCHANGED <<now, elapsed, started, config, fields, cmds, ncmds, log, last,
                   sent, replies, ended, announced>>

\* the except branch of _poll for the fetch of p that raised exc
PollRetry(p, status, body, exc, cause) ==
    /\ polls' = polls \ {p}
    /\ log' = [level |-> "exception",
               msg |-> "Failed to fetch spot prices, retrying in 5 minutes"]
    /\ timers' = timers \cup {RetryTimer(p.date, p.attempts, now)}
    /\ last' = Fetched("poll", 0, p.date, p.attempts, p.req, status, body,
                       vat_multiplier, exc, cause, <<>>)
    /\ UNCHANGED <<now, elapsed, started, config, fields, cmds, ncmds, fetches,
                   sent, replies, ended, announced>>

\* the response arrives with a status that raises before the try block
PollHttpError(p, status) ==
    /\ p \in polls
    /\ p.pc = "http"
    /\ StatusCheck(status) # "ok"
    /\ PollRetry(p, status, 0, StatusCheck(status), "none")

\* the response arrives with a status that passes: fetch_prices awaits resp.json()
PollHttpOk(p, status) ==
    /\ p \in polls
    /\ p.pc = "http"
    /\ StatusCheck(status) = "ok"
    /\ polls' = (polls \ {p}) \cup {[p EXCEPT !.pc = "json", !.status = status]}
    /\ UNCHANGED <<now, elapsed, started, config, fields, timers, cmds, ncmds,
                   log, last, fetches, sent, replies, ended, announced>>

\* the body arrives and the try block raises
PollParseError(p, b) ==
    /\ p \in polls
    /\ p.pc = "json"
    /\ ParseBody(Bodies[b], vat_multiplier).exc # "ok"
    /\ PollRetry(p, p.status, b, "ParseError", ParseBody(Bodies[b], vat_multiplier).cause)

\* the body arrives and parses, and _format_prices raises: the task ends with
\* the exception
PollFormatError(p, b) ==
    LET r == ParseBody(Bodies[b], vat_multiplier)
    IN  /\ p \in polls
        /\ p.pc = "json"
        /\ r.exc = "ok"
        /\ FormatPrices(r.data, day_names, timezone).exc # "ok"
        /\ polls' = polls \ {p}
        /\ last' = Fetched("poll", 0, p.date, p.attempts, p.req, p.status, b,
                           vat_multiplier, "ok", "none", r.data)
        /\ ended' = ended \cup {[date |-> p.date, how |-> "format raised", rooms |-> rooms]}
        /\ UNCHANGED <<now, elapsed, started, config, fields, timers, cmds, ncmds,
                       log, fetches, sent, replies, announced>>

\* the body arrives, parses and formats: the loop over self.rooms begins and
\* awaits the first send
PollFormatted(p, b) ==
    LET r == ParseBody(Bodies[b], vat_multiplier)
        f == FormatPrices(r.data, day_names, timezone)
    IN  /\ p \in polls
        /\ p.pc = "json"
        /\ r.exc = "ok"
        /\ f.exc = "ok"
        /\ last' = Fetched("poll", 0, p.date, p.attempts, p.req, p.status, b,
                           vat_multiplier, "ok", "none", r.data)
        /\ IF rooms = <<>>
           THEN /\ polls' = polls \ {p}
                /\ ended' = ended \cup {[date |-> p.date, how |-> "delivered", rooms |-> rooms]}
           ELSE /\ polls' = (polls \ {p}) \cup
                       {[p EXCEPT !.pc = "send", !.rooms = rooms, !.idx = 1, !.text = f.text]}
                /\ ended' = ended
        /\ UNCHANGED <<now, elapsed, started, config, fields, timers, cmds, ncmds,
                       log, fetches, sent, replies, announced>>

\* send_markdown to the room the loop is at succeeds: the loop goes on, or ends
PollSent(p) ==
    /\ p \in polls
    /\ p.pc = "send"
    /\ sent' = Append(sent, [room |-> p.rooms[p.idx], date |-> p.date, text |-> p.text])
    /\ IF p.idx = Len(p.rooms)
       THEN /\ polls' = polls \ {p}
            /\ ended' = ended \cup {[date |-> p.date, how |-> "delivered", rooms |-> p.rooms]}
       ELSE /\ polls' = (polls \ {p}) \cup {[p EXCEPT !.idx = p.idx + 1]}
            /\ ended' = ended
    /\ UNCHANGED <<now, elapsed, started, config, fields, timers, cmds, ncmds, log,
                   last, fetches, replies, announced>>

\* the send loop inside the try block: a send that raises arms a retry timer
PollSendError_Retry(p) ==
    /\ p \in polls
    /\ p.pc = "send"
    /\ polls' = polls \ {p}
    /\ timers' = timers \cup {RetryTimer(p.date, p.attempts, now)}
    /\ ended' = ended \cup {[date |-> p.date, how |-> "send raised", rooms |-> p.rooms]}
    /\ UNCHANGED <<now, elapsed, started, config, fields, cmds, ncmds, log,
                   last, fetches, sent, replies, announced>>

\* send_markdown to the room the loop is at raises: the task ends with the
\* exception
PollSendError(p) ==
    /\ p \in polls
    /\ p.pc = "send"
    /\ polls' = polls \ {p}
    /\ ended' = ended \cup {[date |-> p.date, how |-> "send raised", rooms |-> p.rooms]}
    /\ UNCHANGED <<now, elapsed, started, config, fields, timers, cmds, ncmds, log,
                   last, fetches, sent, replies, announced>>

\* ----------------------------------------------------------- poll_manually
\* the default taken as the day after the announce instant, as _schedule_poll
\* takes its date
DefaultDate_DayAfter(n) == DateStr(DayOf(NextAnnounceTime(n) + SecondsPerDay))

\* self.next_announce_time.strftime("%Y-%m-%d") at instant n
DefaultDate(n) == DateStr(DayOf(NextAnnounceTime(n)))

\* the command arrives with date argument arg: the date defaults, and
\* fetch_prices sends the request; arg and at record the invocation
CmdInvoke(arg) ==
    /\ started
    /\ ncmds < MaxCommands
    /\ ncmds' = ncmds + 1
    /\ LET date == IF arg = <<>> THEN DefaultDate(now) ELSE arg
       IN  cmds' = cmds \cup {[id |-> ncmds + 1, date |-> date, pc |-> "http",
                               req |-> Request(date), status |-> 0,
                               arg |-> arg, at |-> now]}
    /\ UNCHANGED <<now, elapsed, started, config, fields, timers, polls, log, last,
                   fetches, sent, replies, ended, announced>>

\* the except branch of poll_manually for the fetch of c that raised exc
CmdFailed(c, status, body, exc, cause) ==
    /\ cmds' = cmds \ {c}
    /\ log' = [level |-> "exception", msg |-> "Failed to fetch spot prices"]
    /\ replies' = Append(replies, [id |-> c.id, kind |-> "failure", text |-> NoText])
    /\ last' = Fetched("cmd", c.id, c.date, 0, c.req, status, body, vat_multiplier,
                       exc, cause, <<>>)
    /\ UNCHANGED <<now, elapsed, started, config, fields, timers, polls, ncmds,
                   fetches, sent, ended, announced>>

CmdHttpError(c, status) ==
    /\ c \in cmds
    /\ c.pc = "http"
    /\ StatusCheck(status) # "ok"
    /\ CmdFailed(c, status, 0, StatusCheck(status), "none")

CmdHttpOk(c, status) ==
    /\ c \in cmds
    /\ c.pc = "http"
    /\ StatusCheck(status) = "ok"
    /\ cmds' = (cmds \ {c}) \cup {[c EXCEPT !.pc = "json", !.status = status]}
    /\ UNCHANGED <<now, elapsed, started, config, fields, timers, polls, ncmds,
                   log, last, fetches, sent, replies, ended, announced>>

CmdParseError(c, b) ==
    /\ c \in cmds
    /\ c.pc = "json"
    /\ ParseBody(Bodies[b], vat_multiplier).exc # "ok"
    /\ CmdFailed(c, c.status, b, "ParseError", ParseBody(Bodies[b], vat_multiplier).cause)

\* the else branch: the reply is the formatted report, unless _format_prices
\* raises, which ends the handler with the exception
CmdReply(c, b) ==
    LET r == ParseBody(Bodies[b], vat_multiplier)
        f == FormatPrices(r.data, day_names, timezone)
    IN  /\ c \in cmds
        /\ c.pc = "json"
        /\ r.exc = "ok"
        /\ cmds' = cmds \ {c}
        /\ last' = Fetched("cmd", c.id, c.date, 0, c.req, c.status, b, vat_multiplier,
                           "ok", "none", r.data)
        /\ replies' = IF f.exc = "ok"
                      THEN Append(replies, [id |-> c.id, kind |-> "report", text |-> f.text])
                      ELSE replies
        /\ UNCHANGED <<now, elapsed, started, config, fields, timers, polls, ncmds,
                       log, fetches, sent, ended, announced>>

\* ---------------------------------------------------------- specification
\* the timer-driven path: start, the host's configuration updates, the clock,
\* the timers and the _poll tasks
Next ==
    \/ Start
    \/ \E c \in ChainConfigs : ConfigUpdate(c)
    \/ AdvanceToTimer
    \/ Elapse
    \/ \E t \in timers : PollGiveUp(t)
    \/ \E t \in timers : PollFetch(t)
    \/ \E p \in polls, status \in Statuses : PollHttpError(p, status)
    \/ \E p \in polls, status \in Statuses : PollHttpOk(p, status)
    \/ \E p \in polls, b \in BodyIds : PollParseError(p, b)
    \/ \E p \in polls, b \in BodyIds : PollFormatError(p, b)
    \/ \E p \in polls, b \in BodyIds : PollFormatted(p, b)
    \/ \E p \in polls : PollSent(p)
    \/ \E p \in polls : PollSendError(p)

Spec == Init /\ [][Next]_vars

\* the steps the event loop takes by itself: the clock reaches the deadline of
\* an armed timer, the timer's callback runs, an awaited HTTP call (the price
\* request, its body, a send to a room) completes one way or the other
Progress ==
    \/ AdvanceToTimer
    \/ \E t \in timers : PollGiveUp(t)
    \/ \E t \in timers : PollFetch(t)
    \/ \E p \in polls, status \in Statuses : PollHttpError(p, status)
    \/ \E p \in polls, status \in Statuses : PollHttpOk(p, status)
    \/ \E p \in polls, b \in BodyIds : PollParseError(p, b)
    \/ \E p \in polls, b \in BodyIds : PollFormatError(p, b)
    \/ \E p \in polls, b \in BodyIds : PollFormatted(p, b)
    \/ \E p \in polls : PollSent(p)
    \/ \E p \in polls : PollSendError(p)

\* the timer path with armed timers firing and awaited calls completing,
\* started one second before the announce time
SpecFair ==
    InitAt({AnnounceOffset - 1}, ChainConfigs) /\ [][Next]_vars /\ WF_vars(Progress)

\* the request-driven path between two firings of the timers: start, the
\* host's configuration updates and the poll_manually tasks
NextCmd ==
    \/ Start
    \/ \E c \in DOMAIN Configs : ConfigUpdate(c)
    \/ \E arg \in DateArgs : CmdInvoke(arg)
    \/ \E c \in cmds, status \in Statuses : CmdHttpError(c, status)
    \/ \E c \in cmds, status \in Statuses : CmdHttpOk(c, status)
    \/ \E c \in cmds, b \in BodyIds : CmdParseError(c, b)
    \/ \E c \in cmds, b \in BodyIds : CmdReply(c, b)

SpecCmd == InitAt(StartInstants, DOMAIN Configs) /\ [][NextCmd]_vars

\* the timer path and the commands together: the retry chain of a day whose
\* prices are not published (204), or are (200 with a full body), with the
\* host's configuration updates and poll_manually tasks in between
NextMixed ==
    \/ Start
    \/ \E c \in ChainConfigs : ConfigUpdate(c)
    \/ AdvanceToTimer
    \/ \E t \in timers : PollGiveUp(t)
    \/ \E t \in timers : PollFetch(t)
    \/ \E p \in polls : PollHttpError(p, NoContent)
    \/ \E p \in polls : PollHttpOk(p, 200)
    \/ \E p \in polls : PollFormatted(p, 4)
    \/ \E p \in polls : PollSent(p)
    \/ CmdInvoke(<<>>)
    \/ \E c \in cmds : CmdHttpError(c, NoContent)
    \/ \E c \in cmds : CmdHttpOk(c, 200)
    \/ \E c \in cmds : CmdReply(c, 4)

SpecMixed == InitAt({AnnounceOffset}, {1}) /\ [][NextMixed]_vars

\* start() alone, from every probe instant
NextStart == Start

SpecStart == InitAt(ProbeInstants, DOMAIN Configs) /\ [][NextStart]_vars

\* ------------------------------------------------------------------ claims
\* the dates of the days counted from BaseDay, written out
Calendar == << <<2024, 2, 28>>, <<2024, 2, 29>>, <<2024, 3, 1>>, <<2024, 3, 2>>,
               <<2024, 3, 3>> >>

\* C1: every scheduled cycle that ends, by delivery or by exhausting its
\* attempts, re-arms the daily timer: once a cycle has ended that way the
\* scheduler always has a timer pending or a poll in flight.
C1_Rearmed ==
    (\E e \in ended : e.how \in {"delivered", "exhausted"})
        => (timers # {} \/ polls # {})

\* C2: for one target date the scheduled path calls fetch_prices at most 24
\* times; a chain that gave up has made exactly 24 calls for its date and has
\* left no timer and no poll for it.
C2_AtMost24Fetches ==
    /\ \A d \in DOMAIN fetches : fetches[d] <= 24
    /\ \A e \in ended : e.how = "exhausted" =>
          /\ fetches[e.date] = 24
          /\ \A t \in timers : t.date # e.date
          /\ \A p \in polls : p.date # e.date

C2_Witness ==
    \E e \in ended : e.how = "exhausted" /\ fetches[e.date] = 24

\* C3: a step in which a scheduled fetch fails, whatever the error, arms
\* exactly one timer, 300 seconds from now, for the same date with the
\* attempt count one higher, ends that poll and delivers nothing.
C3_FailedFetchRetries ==
    [][(last'.n # last.n /\ last'.caller = "poll" /\ last'.exc # "ok") =>
          /\ timers' = timers \cup {[at |-> now + 300, date |-> last'.date,
                                     attempts |-> last'.attempts + 1, armed |-> now]}
          /\ Cardinality(timers') = Cardinality(timers) + 1
          /\ sent' = sent
          /\ \E p \in polls : /\ p.date = last'.date
                              /\ p.attempts = last'.attempts
                              /\ polls' = polls \ {p}]_vars

C3_Witness ==
    /\ last.caller = "poll"
    /\ last.exc = "ParseError"
    /\ last.attempts = 23
    /\ \E t \in timers : t.date = last.date /\ t.attempts = 24 /\ t.at = now + 300

\* C4 as claimed: the daily timer armed at instant n is for today's 12:45:00
\* when n is strictly before it, and for tomorrow's when n is at or after it.
C4_AtOrAfterIsTomorrow ==
    \A t \in timers : t.attempts = 0 =>
        LET today == (t.armed \div 86400) * 86400 + 12 * 3600 + 45 * 60
        IN  t.at = IF t.armed < today THEN today ELSE today + 86400

\* C4 as amended: the daily timer armed at instant n is for today's 12:45:00
\* when n is at or before it, and for tomorrow's when n is strictly after it.
C4_AfterIsTomorrow ==
    \A t \in timers : t.attempts = 0 =>
        LET today == (t.armed \div 86400) * 86400 + 12 * 3600 + 45 * 60
        IN  /\ t.at = IF t.armed <= today THEN today ELSE today + 86400
            /\ t.at \in announced

C4_Witness ==
    \E t \in timers : /\ t.attempts = 0
                      /\ t.armed = 12 * 3600 + 45 * 60
                      /\ t.at = t.armed

\* C5: the prices of a series fetch_prices returns are those of the delivery
\* area the request was made for.
C5_PriceOfConfiguredArea ==
    last.exc = "ok" =>
        \A i \in DOMAIN last.data :
            LET prices == Bodies[last.body].entries[i].prices
            IN  /\ last.area \in DOMAIN prices
                /\ last.data[i][2] * 10 = prices[last.area].v * last.vm

\* C6: when a scheduled fetch has succeeded and its report is formatted, the
\* chain ends with every room of the list it delivers to having received the
\* report for that date exactly once, whatever the outcome of the sends.
C6_EveryRoomOnce ==
    \A e \in ended : e.how \in {"delivered", "send raised"} =>
        \A i \in DOMAIN e.rooms :
            Cardinality({k \in DOMAIN sent :
                            sent[k].room = e.rooms[i] /\ sent[k].date = e.date}) = 1

\* a body is malformed when it is no JSON, lacks multiAreaEntries, or has an
\* entry that lacks entryPerArea, the area's key or deliveryStart, or whose
\* price is no number
Malformed(body, area) ==
    \/ ~body.json
    \/ ~body.has
    \/ \E i \in DOMAIN body.entries :
          LET item == body.entries[i]
          IN  \/ ~item.epa
              \/ area \notin DOMAIN item.prices
              \/ item.deliveryStart.t # "iso"
              \/ item.prices[area].t \notin {"float", "int"}

\* C7: with the delivery area the one the code reads, fetch_prices fails to
\* parse a body exactly when the body is malformed; a body whose prices are
\* all numbers, whole or fractional, is accepted.
C7_NumericAccepted ==
    (last.body # 0 /\ last.area = PriceKey) =>
        (last.exc = "ParseError" <=> Malformed(Bodies[last.body], last.area))

C9_OneReply ==
    \A i \in 1..ncmds : (\A c \in cmds : c.id # i) =>
        Cardinality({k \in DOMAIN replies : replies[k].id = i}) = 1

\* C10: every timer and every poll of the chain the daily timer for announce
\* instant T started carries the date of the day after T, on whatever day it
\* is by now.
C10_DateOfDayAfterAnnounce ==
    \A T \in announced :
        /\ \A t \in timers : t.date = Calendar[DayOf(T) + 2]
        /\ \A p \in polls : p.date = Calendar[DayOf(T) + 2]
        /\ \A d \in DOMAIN fetches : d = Calendar[DayOf(T) + 2]

C10_Witness ==
    \E T \in announced : \E p \in polls :
        /\ p.attempts > 0
        /\ DayOf(now) > DayOf(T)
        /\ p.date = Calendar[DayOf(T) + 2]

\* C11: a step that applies a configuration whose timezone name pytz does
\* not know sets the timezone to UTC, logs a warning and sets every other
\* derived field from that configuration.
C11_UnknownZoneFallsBack ==
    [][(started' /\ (~started \/ config' # config)
            /\ Configs[config'].timezone = "Mars/Phobos") =>
          /\ timezone' = "UTC"
          /\ log'.level = "warning"
          /\ delivery_area' = Configs[config'].delivery_area
          /\ currency' = Configs[config'].currency
          /\ rooms' = Configs[config'].post_to_rooms
          /\ day_names' = Configs[config'].day_names
          /\ vat_multiplier' = 100 + Configs[config'].vat
          /\ command_name' = Configs[config'].command]_vars

C11_Witness ==
    /\ started
    /\ Configs[config].timezone = "Mars/Phobos"
    /\ timezone = "UTC"
    /\ log.level = "warning"
    /\ rooms = <<"!b">>
    /\ vat_multiplier = 100

\* C12: a command invoked without a date fetches the date of today when
\* invoked up to 12:45:00 CET and of tomorrow when invoked after it, which is
\* the date of next_announce_time; invoked with a date it fetches that date.
C12_CommandDate ==
    \A c \in cmds :
        /\ c.req.date = c.date
        /\ c.arg # <<>> => c.date = c.arg
        /\ c.arg = <<>> =>
              c.date = IF c.at % 86400 <= 12 * 3600 + 45 * 60
                       THEN Calendar[c.at \div 86400 + 1]
                       ELSE Calendar[c.at \div 86400 + 2]

C12_Witness ==
    \E c \in cmds : /\ c.arg = <<>>
                    /\ c.at = 12 * 3600 + 45 * 60 + 1
                    /\ c.date = <<2024, 2, 29>>
                    /\ c.pc = "json"

\* C13: every price of a returned series is the raw price of its entry times
\* (1 + VAT) / 10, with VAT that of the configuration the host holds when the
\* series is returned; in the scaled units, ten times the price in 1/100000
\* is the raw price in 1/1000 times the multiplier in 1/100.
C13_VatInclusivePrice ==
    last.exc = "ok" =>
        /\ Len(last.data) = Len(Bodies[last.body].entries)
        /\ \A i \in DOMAIN last.data :
              last.data[i][2] * 10 =
                  Bodies[last.body].entries[i].prices["FI"].v
                      * (100 + Configs[last.cfg].vat)

C13_Witness ==
    /\ last.exc = "ok"
    /\ last.body = 6
    /\ Configs[last.cfg].vat = 24
    /\ last.data[1][2] = -30504
    /\ last.data[3][2] = 0

\* C14 as claimed: the failed fetch that brings the attempt count to 24 arms
\* no timer, so that no timer ever carries more than 23 attempts.
C14_NoTimerAfter24thFailure ==
    \A t \in timers : t.attempts <= 23

\* C14 as amended: the failed fetch that brings the attempt count to 24 arms
\* one more timer, 300 seconds later; the chain gives up in the step in which
\* that timer fires, which logs the terminal error, fetches nothing and arms
\* nothing; no timer carries more than 24 attempts.
C14_GivesUpWhenLastTimerFires ==
    [][/\ \A t \in timers' : t.attempts <= 24
       /\ (last'.n # last.n /\ last'.caller = "poll" /\ last'.exc # "ok"
              /\ last'.attempts = 23) =>
             /\ \E t \in timers' : t.attempts = 24 /\ t.at = now + 300
             /\ log'.level = "exception"
             /\ ended' = ended
       /\ (\E e \in ended' \ ended : e.how = "exhausted") =>
             /\ \E t \in timers : /\ t.attempts = 24
                                  /\ t.at = t.armed + 300
                                  /\ t.at <= now
                                  /\ timers' = timers \ {t}
             /\ log'.level = "error"
             /\ fetches' = fetches
             /\ polls' = polls]_vars

C14_Witness ==
    /\ \E e \in ended : e.how = "exhausted"
    /\ log.level = "error"
    /\ timers = {}
    /\ \E T \in announced : now = T + 24 * 300

C16_OneConfigurationPerFetch ==
    last.exc = "ok" =>
        \E c \in DOMAIN Configs :
            /\ last.area = Configs[c].delivery_area
            /\ last.currency = Configs[c].currency
            /\ last.vm = 100 + Configs[c].vat
            /\ \A p \in polls : p.pc = "send" => p.rooms = Configs[c].post_to_rooms

\* C16 as amended: the area and currency of the request are those of the
\* configuration held when the request was built; the VAT multiplier applied
\* to the response and the room list of the delivery are those of the
\* configuration held when the body is parsed, which is another one when the
\* host updated the configuration in between.
C16_EachReadSeesCurrentConfiguration ==
    /\ last.n > 0 =>
          /\ last.area = Configs[last.reqcfg].delivery_area
          /\ last.currency = Configs[last.reqcfg].currency
    /\ last.exc = "ok" =>
          /\ last.vm = 100 + Configs[last.cfg].vat
          /\ \A p \in polls :
                p.pc = "send" => p.rooms = Configs[last.cfg].post_to_rooms
    /\ \A p \in polls :
          /\ p.req.area = Configs[p.req.cfg].delivery_area
          /\ p.req.currency = Configs[p.req.cfg].currency

C16_Witness ==
    /\ last.caller = "poll" /\ last.exc = "ok"
    /\ last.reqcfg = 1 /\ last.cfg = 2
    /\ last.area = "FI" /\ last.currency = "EUR" /\ last.vm = 100
    /\ \E p \in polls : p.pc = "send" /\ p.rooms = <<"!b">>

\* C17: every series that fetch_prices returns to a caller has at least 13
\* points, and no scheduled cycle is ended by an exception of _format_prices.
C17_FormatterGetsFullSeries ==
    /\ last.exc = "ok" => Len(last.data) >= MidPoint + 1
    /\ \A e \in ended : e.how # "format raised"

\* C18: wherever a timer is armed, a scheduled poll or a command is in flight,
\* or a fetch has been made, on_external_config_update has set every derived
\* field; every request was built from a set area and currency and every
\* conversion used a set VAT multiplier.
C18_FieldsSetBeforeRead ==
    /\ (timers # {} \/ polls # {} \/ cmds # {} \/ last.n > 0) =>
          /\ delivery_area # "" /\ currency # "" /\ timezone # ""
          /\ day_names # <<>> /\ vat_multiplier # 0 /\ command_name # ""
          /\ rooms = Configs[config].post_to_rooms
    /\ \A p \in polls \cup cmds : p.req.area # "" /\ p.req.currency # ""
    /\ last.n > 0 => last.area # "" /\ last.currency # "" /\ last.vm # 0

C18_Witness ==
    /\ started
    /\ \E t \in timers : t.attempts = 0 /\ t.armed = now /\ t.at - t.armed = 0
    /\ polls = {} /\ last.n = 0
    /\ delivery_area = Configs[config].delivery_area
    /\ currency = Configs[config].currency
    /\ vat_multiplier = 100 + Configs[config].vat

\* C19: there is at most one pending timer or scheduled poll in flight, and
\* the attempt count it carries is in 0..24, whatever configuration updates
\* and commands come in between.
C19_OneChain ==
    /\ Cardinality(timers) + Cardinality(polls) <= 1
    /\ \A t \in timers : t.attempts \in 0..24
    /\ \A p \in polls : p.attempts \in 0..24

C19_Witness ==
    /\ \E t \in timers : t.attempts = 24
    /\ polls = {}
    /\ \E c \in cmds : c.pc = "json"
    /\ config = 2

====
